---- MODULE Spec2Model ----
(***************************************************************************)
(* Clocked model of the CSR field types of amaranth_soc/csr/field.py.      *)
(*                                                                         *)
(* One field instance (RW, RW1C or RW1S) is observed.  A state is the      *)
(* field between two events: either the environment has just driven the    *)
(* port signals for the running cycle (pc = "drive"), or the clock edge    *)
(* that ends the cycle has just been taken (pc = "tick").  After a tick    *)
(* the input variables still hold the values that were sampled by that     *)
(* edge and old holds the storage as it was before the edge.               *)
(***************************************************************************)
EXTENDS Integers, Naturals, FiniteSets, Sequences, TLC

\* Width of the observed field, in bits (Signal(shape)).
Width == 3

Bit == 0 .. (Width - 1)

\* A Signal(shape) of Width bits: bit i of the signal is v[i].
BitVec == [Bit -> {0, 1}]

\* The three field types that own a _storage signal.
Kinds == {"RW", "RW1C", "RW1S"}

VARIABLES
    kind,       \* type of the field instance
    storage,    \* self._storage
    old,        \* self._storage before the last clock edge
    w_stb,      \* self.port.w_stb
    w_data,     \* self.port.w_data
    set,        \* RW1C.set   (all zero for the other types)
    clear,      \* RW1S.clear (all zero for the other types)
    r_data,     \* self.port.r_data
    data,       \* self.data
    pc          \* "reset", "drive" or "tick": the last event

vars == <<kind, storage, old, w_stb, w_data, set, clear, r_data, data, pc>>

Zero == [i \in Bit |-> 0]

\* The bit vector of the unsigned integer n, truncated to Width bits.
Bin(n) == [i \in Bit |-> (n \div (2 ^ i)) % 2]

----------------------------------------------------------------------------
(* Next-state functions of the sync domain, one per field type.            *)
(* Within one elaborate(), a later m.d.sync assignment to the same bit     *)
(* overrides an earlier one when both If conditions are true.              *)

\* Variant: the storage is loaded from w_data on every edge.
RW_sync_nostb(s, stb, d) == d

\* Variant: a strobed write ORs w_data into the storage instead of loading it.
RW_sync_or(s, stb, d) ==
    IF stb = 1 THEN [i \in DOMAIN s |-> IF d[i] = 1 THEN 1 ELSE s[i]] ELSE s

\* RW.elaborate: with m.If(w_stb): _storage.eq(w_data)
RW_sync(s, stb, d) == IF stb = 1 THEN d ELSE s

\* Variant: the two If blocks of RW1C in the opposite order (clear last).
RW1C_sync_bit_swapped(sb, stb, db, setb) ==
    LET a == IF setb = 1 THEN 1 ELSE sb
    IN  IF stb = 1 /\ db = 1 THEN 0 ELSE a

\* Variant: the clear condition of RW1C without the strobe (If(w_data[i])).
RW1C_sync_bit_nostb(sb, stb, db, setb) ==
    LET a == IF db = 1 THEN 0 ELSE sb
    IN  IF setb = 1 THEN 1 ELSE a

\* Variant: the set condition of RW1C gated by the strobe (If(w_stb & set[i])).
RW1C_sync_bit_setstb(sb, stb, db, setb) ==
    LET a == IF stb = 1 /\ db = 1 THEN 0 ELSE sb
    IN  IF stb = 1 /\ setb = 1 THEN 1 ELSE a

\* Variant: a bus write of 1 toggles the bit of an RW1C instead of clearing it.
RW1C_sync_bit_toggle(sb, stb, db, setb) ==
    LET a == IF stb = 1 /\ db = 1 THEN 1 - sb ELSE sb
    IN  IF setb = 1 THEN 1 ELSE a

\* RW1C.elaborate, bit i:
\*   with m.If(w_stb & w_data[i]): storage_bit.eq(0)
\*   with m.If(set[i]):            storage_bit.eq(1)
RW1C_sync_bit(sb, stb, db, setb) ==
    LET a == IF stb = 1 /\ db = 1 THEN 0 ELSE sb
    IN  IF setb = 1 THEN 1 ELSE a

\* Variant: RW1C with the strobe taking the whole word
\* (If(w_stb): clear the written bits / Else: set the requested bits).
RW1C_sync_busword(s, stb, d, st) ==
    [i \in Bit |-> IF stb = 1 THEN (IF d[i] = 1 THEN 0 ELSE s[i])
                   ELSE IF st[i] = 1 THEN 1 ELSE s[i]]

\* RW1C.elaborate: for i, storage_bit in enumerate(self._storage)
RW1C_sync(s, stb, d, st) ==
    [i \in Bit |-> RW1C_sync_bit(s[i], stb, d[i], st[i])]

\* Variant: the two If blocks of RW1S in the opposite order (clear last).
RW1S_sync_bit_swapped(sb, stb, db, clrb) ==
    LET a == IF stb = 1 /\ db = 1 THEN 1 ELSE sb
    IN  IF clrb = 1 THEN 0 ELSE a

\* Variant: the set condition of RW1S without the strobe (If(w_data[i])).
RW1S_sync_bit_nostb(sb, stb, db, clrb) ==
    LET a == IF clrb = 1 THEN 0 ELSE sb
    IN  IF db = 1 THEN 1 ELSE a

\* Variant: RW1S with the strobe taking the whole word (If(w_stb) / Elif(clear[i])).
RW1S_sync_bit_busword(sb, stb, db, clrb) ==
    IF stb = 1 THEN (IF db = 1 THEN 1 ELSE sb)
    ELSE IF clrb = 1 THEN 0 ELSE sb

\* RW1S.elaborate, bit i:
\*   with m.If(clear[i]):          storage_bit.eq(0)
\*   with m.If(w_stb & w_data[i]): storage_bit.eq(1)
RW1S_sync_bit(sb, stb, db, clrb) ==
    LET a == IF clrb = 1 THEN 0 ELSE sb
    IN  IF stb = 1 /\ db = 1 THEN 1 ELSE a

\* RW1S.elaborate: for i, storage_bit in enumerate(self._storage)
RW1S_sync(s, stb, d, clr) ==
    [i \in Bit |-> RW1S_sync_bit(s[i], stb, d[i], clr[i])]

----------------------------------------------------------------------------
(* A register: Register("rw", FieldMap({"a": R(1), "b": RW1C(2, reset=3),  *)
(* "e": FieldArray(W(1), 2), "f": RW1S(1)})), the register of test_sim     *)
(* with narrower fields.  A Field object is named by its id; the field     *)
(* tree holds ids, so that one object placed twice is the same object.     *)

\* Length of the FieldArray "e".
ArrayLen == 2

\* The Field objects: type, Shape.cast(shape).width and reset argument
\* (0 when the type takes none or none is given).
FieldDef ==
    [a |-> [type |-> "R",    width |-> 1, reset |-> 0],
     b |-> [type |-> "RW1C", width |-> 2, reset |-> 3],
     e |-> [type |-> "W",    width |-> 1, reset |-> 0],
     f |-> [type |-> "RW1S", width |-> 1, reset |-> 0]]

FieldIds == DOMAIN FieldDef

\* Nodes of a field tree.
FieldNode(id) == [t |-> "Field", id |-> id]
FieldMapNode(fields) == [t |-> "FieldMap", fields |-> fields]
FieldArrayNode(field, length) ==
    [t |-> "FieldArray", field |-> field, length |-> length]

RegTree ==
    FieldMapNode(<< <<"a", FieldNode("a")>>,
                    <<"b", FieldNode("b")>>,
                    <<"e", FieldArrayNode(FieldNode("e"), ArrayLen)>>,
                    <<"f", FieldNode("f")>> >>)

\* (key, *sub_name) for every (sub_name, sub_field) of a nested flatten().
Prefixed(key, subs) ==
    [n \in 1 .. Len(subs) |-> << <<key>> \o subs[n][1], subs[n][2] >>]

RECURSIVE Flatten(_)
RECURSIVE FlattenMap(_, _)
RECURSIVE FlattenArray(_, _, _)

\* FieldMap.flatten, entries n .. len of the mapping, in declaration order.
FlattenMap(fields, n) ==
    IF n > Len(fields) THEN << >>
    ELSE LET key   == fields[n][1]
             field == fields[n][2]
         IN  (IF field.t = "Field"
              THEN << << <<key>>, field.id >> >>
              ELSE Prefixed(key, Flatten(field)))
             \o FlattenMap(fields, n + 1)

\* Variant: the keys start at 1 (range(1, self._length)).
FlattenArray_from1(field, key, length) ==
    IF key = 0 THEN FlattenArray(field, 1, length)
    ELSE IF key >= length THEN << >>
    ELSE (IF field.t = "Field"
          THEN << << <<key>>, field.id >> >>
          ELSE Prefixed(key, Flatten(field)))
         \o FlattenArray(field, key + 1, length)

\* FieldArray.flatten, keys key .. length-1: every key yields self._field,
\* the one Field object the array was built with.
FlattenArray(field, key, length) ==
    IF key >= length THEN << >>
    ELSE (IF field.t = "Field"
          THEN << << <<key>>, field.id >> >>
          ELSE Prefixed(key, Flatten(field)))
         \o FlattenArray(field, key + 1, length)

Flatten(node) ==
    IF node.t = "FieldMap" THEN FlattenMap(node.fields, 1)
    ELSE FlattenArray(node.field, 0, node.length)

\* Register.__iter__: the (field_name, field) pairs elaborate() walks.
Leaves == Flatten(RegTree)
LeafIx == 1 .. Len(Leaves)
LeafField(k) == Leaves[k][2]
LeafWidth(k) == FieldDef[LeafField(k)].width

\* FieldPort.Access.readable / writable of the field's access mode:
\* R is "r", W is "w", RW, RW1C and RW1S are "rw".
Readable(id) == FieldDef[id].type \in {"R", "RW", "RW1C", "RW1S"}
Writable(id) == FieldDef[id].type \in {"W", "RW", "RW1C", "RW1S"}
\* The field types that own a _storage signal.
Stored(id) == FieldDef[id].type \in Kinds
StoredIds == {id \in FieldIds : Stored(id)}
InputIds == {id \in FieldIds : FieldDef[id].type = "R"}

RECURSIVE field_start(_)

\* Variant: field_start is never advanced (every slice starts at bit 0).
field_start_stuck(k) == 0

\* Register.elaborate: field_start of the k-th leaf
\* (field_start = 0; ...; field_start = field_slice.stop).
field_start(k) ==
    IF k = 1 THEN 0 ELSE field_start(k - 1) + LeafWidth(k - 1)

field_stop(k) == field_start(k) + LeafWidth(k)

\* Register.elaborate: field_slice of every leaf,
\* slice(field_start, field_start + Shape.cast(field.shape).width).
field_slice ==
    [k \in LeafIx |-> [start |-> field_start(k), stop |-> field_stop(k)]]

\* Register.__init__: width of the element, the sum of the leaf widths.
ElementWidth ==
    LET RECURSIVE Sum(_)
        Sum(k) == IF k = 0 THEN 0 ELSE Sum(k - 1) + LeafWidth(k)
    IN  Sum(Len(Leaves))

ElBit == 0 .. (ElementWidth - 1)

\* A signal of w bits.
Bv(w) == [0 .. (w - 1) -> {0, 1}]
Zeros(w) == [i \in 0 .. (w - 1) |-> 0]
\* The bit vector of the unsigned integer n, w bits wide.
BinW(n, w) == [i \in 0 .. (w - 1) |-> (n \div (2 ^ i)) % 2]

\* Variant: the reset argument is not passed on to the Signal.
StorageReset_dropped(id) == Zeros(FieldDef[id].width)

\* Signal(shape, reset=reset) of a stored field.
StorageReset(id) == BinW(FieldDef[id].reset, FieldDef[id].width)

VARIABLES
    el_w_stb,    \* self.element.w_stb
    el_r_stb,    \* self.element.r_stb
    el_w_data,   \* self.element.w_data
    f_data_in,   \* data of every R field, driven by the logic
    f_logic,     \* set of every RW1C field, clear of every RW1S field
    f_storage,   \* _storage of every stored field
    f_old,       \* f_storage before the last clock edge
    w_stb_old,   \* element.w_stb as sampled by the last clock edge
    reg_pc       \* "reset", "drive" or "tick": the last event

rvars == <<el_w_stb, el_r_stb, el_w_data, f_data_in, f_logic, f_storage,
           f_old, w_stb_old, reg_pc>>

\* v[field_slice] of the k-th leaf.
Slice(v, k) ==
    [i \in 0 .. (field_slice[k].stop - field_slice[k].start - 1) |->
        v[field_slice[k].start + i]]

\* The last leaf that holds the Field object id: of several comb
\* assignments to one signal the last one is in effect.
LastLeafOf ==
    [id \in FieldIds |->
        CHOOSE k \in LeafIx :
            /\ LeafField(k) = id
            /\ \A j \in LeafIx : LeafField(j) = id => j <= k]

LastLeaf(id) == LastLeafOf[id]

\* Register.elaborate: if field.access.writable():
\*   field.port.w_stb.eq(self.element.w_stb)
port_w_stb(id) == IF Writable(id) THEN el_w_stb ELSE 0

\* Register.elaborate: if field.access.writable():
\*   field.port.w_data.eq(self.element.w_data[field_slice])
port_w_data(id) ==
    IF Writable(id) THEN Slice(el_w_data, LastLeaf(id))
    ELSE Zeros(FieldDef[id].width)

\* Variant: r_stb is wired to the writable fields instead of the readable.
port_r_stb_writable(id) == IF Writable(id) THEN el_r_stb ELSE 0

\* Register.elaborate: if field.access.readable():
\*   field.port.r_stb.eq(self.element.r_stb)
port_r_stb(id) == IF Readable(id) THEN el_r_stb ELSE 0

\* Variant: the logic-facing value of a stored field bypasses the storage
\* while the bus writes.
field_data_bypass(id) ==
    IF FieldDef[id].type = "R" THEN f_data_in[id]
    ELSE IF FieldDef[id].type = "W" THEN port_w_data(id)
    ELSE IF port_w_stb(id) = 1 THEN port_w_data(id) ELSE f_storage[id]

\* Field.data: an input of an R field, port.w_data of a W field
\* (W.elaborate), _storage of a stored field.
field_data(id) ==
    IF FieldDef[id].type = "R" THEN f_data_in[id]
    ELSE IF FieldDef[id].type = "W" THEN port_w_data(id)
    ELSE f_storage[id]

\* Variant: an R field that answers the bus with the bus's own write data
\* while the write strobe is asserted.
port_r_data_echo(id) ==
    IF FieldDef[id].type = "R"
    THEN (IF el_w_stb = 1 THEN Slice(el_w_data, LastLeaf(id))
          ELSE f_data_in[id])
    ELSE IF FieldDef[id].type = "W" THEN Zeros(FieldDef[id].width)
    ELSE f_storage[id]

\* field.port.r_data: data of an R field (R.elaborate), never driven by a W
\* field, _storage of a stored field.
port_r_data(id) ==
    IF FieldDef[id].type = "R" THEN f_data_in[id]
    ELSE IF FieldDef[id].type = "W" THEN Zeros(FieldDef[id].width)
    ELSE f_storage[id]

\* The leaf whose slice holds bit n of the element.
LeafOfBitTable ==
    [n \in ElBit |->
        CHOOSE k \in LeafIx : field_slice[k].start <= n /\ n < field_slice[k].stop]

LeafOfBit(n) == LeafOfBitTable[n]

\* Variant: r_data is driven for every field, readable or not, with the
\* field's logic-facing value.
el_r_data_all ==
    [n \in ElBit |->
        LET k == LeafOfBit(n)
        IN  field_data(LeafField(k))[n - field_slice[k].start]]

\* Register.elaborate: if field.access.readable():
\*   self.element.r_data[field_slice].eq(field.port.r_data)
\* The bits of a field that is not readable are never driven and read 0.
el_r_data ==
    [n \in ElBit |->
        LET k == LeafOfBit(n)
        IN  IF Readable(LeafField(k))
            THEN port_r_data(LeafField(k))[n - field_slice[k].start]
            ELSE 0]

\* Next _storage of the stored field id at a clock edge, from the signals
\* Register.elaborate wires to its port and from its set / clear signal.
field_sync(id) ==
    LET ty == FieldDef[id].type
        s  == f_storage[id]
        d  == port_w_data(id)
    IN  IF ty = "RW" THEN RW_sync(s, port_w_stb(id), d)
        ELSE [i \in DOMAIN s |->
                IF ty = "RW1C"
                THEN RW1C_sync_bit(s[i], port_w_stb(id), d[i], f_logic[id][i])
                ELSE RW1S_sync_bit(s[i], port_w_stb(id), d[i], f_logic[id][i])]

\* The register after construction: every _storage at its reset value,
\* every input signal 0.
RegReset ==
    /\ el_w_stb = 0
    /\ el_r_stb = 0
    /\ el_w_data = Zeros(ElementWidth)
    /\ f_data_in = [id \in InputIds |-> Zeros(FieldDef[id].width)]
    /\ f_logic = [id \in StoredIds |-> Zeros(FieldDef[id].width)]
    /\ f_storage = [id \in StoredIds |-> StorageReset(id)]
    /\ f_old = f_storage
    /\ w_stb_old = 0
    /\ reg_pc = "reset"

----------------------------------------------------------------------------
(* Construction time: the Python objects of reg.py before any hardware is  *)
(* elaborated.  A value is a record tagged by t; a Field object is named   *)
(* by its id, so that two Field values are the same object exactly when    *)
(* their ids are equal.                                                    *)

VARIABLES
    obj,        \* the field collection built last (the None value if none)
    other,      \* the field collection built before it
    res         \* the last call: its operation, arguments and outcome

tvars == <<obj, other, res>>

\* Python values that are not field objects.
None == [t |-> "None"]
PyStr(s) == [t |-> "str", v |-> s]
PyInt(n) == [t |-> "int", n |-> n]
\* A dict with the given (key, value) items, in insertion order.
Dict(items) == [t |-> "dict", items |-> items]

\* No object has been constructed and no call made.
NoObjects ==
    /\ obj = None
    /\ other = None
    /\ res = None

\* The Field objects constructed for the collections of this section:
\* p = R(1), q = R(1) constructed separately from p, w = W(1), r = R(2),
\* s = RW(2).
ObjDef ==
    [p |-> [type |-> "R",  width |-> 1],
     q |-> [type |-> "R",  width |-> 1],
     w |-> [type |-> "W",  width |-> 1],
     r |-> [type |-> "R",  width |-> 2],
     s |-> [type |-> "RW", width |-> 2]]

\* Shape.cast(field.shape).width
shape_width(id) == ObjDef[id].width

\* Field.access: the mode the field type hands to Field.__init__.
Field_access(id) ==
    IF ObjDef[id].type = "R" THEN "r"
    ELSE IF ObjDef[id].type = "W" THEN "w"
    ELSE "rw"

\* Access.readable / Access.writable
readable(access) == access \in {"r", "rw"}
writable(access) == access \in {"w", "rw"}

\* An exception that leaves the call; name is the field named by the message.
RaiseNamed(exc, msg, name) ==
    [t |-> "raise", exc |-> exc, msg |-> msg, name |-> name]
Raise(exc, msg) == RaiseNamed(exc, msg, "")
Raised(v) == v.t = "raise"

\* isinstance(v, (Field, FieldMap, FieldArray))
isinstance_field(v) == v.t \in {"Field", "FieldMap", "FieldArray"}

\* Variant: the name is only required to be a string.
FieldMap_key_ok_any_str(key) == key.t = "str"

\* FieldMap.__init__: isinstance(key, str) and key
FieldMap_key_ok(key) == key.t = "str" /\ key.v # ""

RECURSIVE FieldMap_init_items(_, _)

\* FieldMap.__init__: for key, field in fields.items(), from the n-th item.
FieldMap_init_items(items, n) ==
    IF n > Len(items)
    THEN FieldMapNode([k \in 1 .. Len(items) |->
                          <<items[k][1].v, items[k][2]>>])
    ELSE IF ~FieldMap_key_ok(items[n][1])
    THEN Raise("TypeError", "Field name must be a non-empty string")
    ELSE IF ~isinstance_field(items[n][2])
    THEN Raise("TypeError",
               "Field must be a Field or a FieldMap or a FieldArray")
    ELSE FieldMap_init_items(items, n + 1)

\* FieldMap.__init__(fields): the new FieldMap or the exception raised.
FieldMap_init(arg) ==
    IF arg.t # "dict" \/ Len(arg.items) = 0
    THEN Raise("TypeError", "Fields must be provided as a non-empty mapping")
    ELSE FieldMap_init_items(arg.items, 1)

\* Variant: a length of 0 is accepted.
FieldArray_length_ok_zero(length) == length.t = "int" /\ length.n >= 0

\* FieldArray.__init__: not (not isinstance(length, int) or length <= 0)
FieldArray_length_ok(length) == length.t = "int" /\ length.n > 0

\* FieldArray.__init__(field, length): the new FieldArray or the exception.
FieldArray_init(field, length) ==
    IF ~isinstance_field(field)
    THEN Raise("TypeError",
               "Field must be a Field or a FieldMap or a FieldArray")
    ELSE IF ~FieldArray_length_ok(length)
    THEN Raise("TypeError", "Field array length must be a positive integer")
    ELSE FieldArrayNode(field, length.n)

\* FieldArray.__len__
FieldArray_len(self) == self.length

\* FieldArray.__getitem__(key)
FieldArray_getitem(self, key) ==
    IF key.t = "int"
    THEN IF key.n \notin (0 - self.length) .. (self.length - 1)
         THEN Raise("IndexError", "key")
         ELSE self.field
    ELSE Raise("TypeError", "Cannot index field array")

\* FieldMap.__getitem__(key): self._fields[key]
FieldMap_getitem(self, key) ==
    IF \E n \in 1 .. Len(self.fields) : self.fields[n][1] = key
    THEN self.fields[CHOOSE n \in 1 .. Len(self.fields) :
                         self.fields[n][1] = key][2]
    ELSE Raise("KeyError", "key")

RECURSIVE Value_eq(_, _)

\* A Field defines no __eq__: two fields are equal when they are one object.
Field_eq(self, value) == value.t = "Field" /\ self.id = value.id

\* FieldMap defines no __eq__ and inherits Mapping.__eq__:
\* dict(self.items()) == dict(other.items()), which ignores insertion order.
FieldMap_eq(self, value) ==
    /\ value.t = "FieldMap"
    /\ Len(self.fields) = Len(value.fields)
    /\ \A i \in 1 .. Len(self.fields) :
         \E j \in 1 .. Len(value.fields) :
            /\ self.fields[i][1] = value.fields[j][1]
            /\ Value_eq(self.fields[i][2], value.fields[j][2])

\* FieldArray.__eq__: isinstance(other, FieldArray) and
\* list(self) == list(other); list(self) is self._field, length times.
FieldArray_eq(self, value) ==
    /\ value.t = "FieldArray"
    /\ FieldArray_len(self) = FieldArray_len(value)
    /\ Value_eq(self.field, value.field)

\* a == b for two field objects.
Value_eq(a, b) ==
    IF a.t = "Field" THEN Field_eq(a, b)
    ELSE IF a.t = "FieldMap" THEN FieldMap_eq(a, b)
    ELSE FieldArray_eq(a, b)

RECURSIVE HasIndex(_, _)

\* Does field_name, a name that flatten() of node yields, hold an int?
\* FieldMap.flatten yields its str keys, FieldArray.flatten the ints of
\* range(self._length).
HasIndex(node, field_name) ==
    IF Len(field_name) = 0 THEN FALSE
    ELSE IF node.t = "FieldArray" THEN TRUE
    ELSE HasIndex(FieldMap_getitem(node, field_name[1]), Tail(field_name))

RECURSIVE Joined(_)

\* "__".join of a sequence of strings.
Joined(names) ==
    IF Len(names) = 1 THEN names[1]
    ELSE names[1] \o "__" \o Joined(Tail(names))

\* "__".join(field_name) in Register.__init__: str.join raises TypeError on
\* an item that is not a str.
str_join(node, field_name) ==
    IF HasIndex(node, field_name)
    THEN Raise("TypeError", "sequence item: expected str instance, int found")
    ELSE PyStr(Joined(field_name))

\* Variant: the width is overwritten by every leaf instead of accumulated.
width_add_last(width, w) == w

\* Register.__init__: width += Shape.cast(field.shape).width
width_add(width, w) == width + w

\* The exception of a failed access check: the ValueError naming the field,
\* or the exception raised while its message is formatted.
access_error(node, field_name, msg) ==
    LET name == str_join(node, field_name)
    IN  IF Raised(name) THEN name
        ELSE RaiseNamed("ValueError", msg, name.v)

RECURSIVE Register_init_fields(_, _, _, _)

\* Register.__init__: for field_name, field in fields.flatten(), from the
\* n-th leaf on; then self.element = Element(width, access).
Register_init_fields(access, node, n, width) ==
    LET leaves == Flatten(node)
    IN  IF n > Len(leaves)
        THEN [t |-> "Register", access |-> access, width |-> width,
              fields |-> node]
        ELSE IF readable(Field_access(leaves[n][2])) /\ ~readable(access)
        THEN access_error(node, leaves[n][1],
                 "Field {} is readable, but register access mode is '{}'")
        ELSE IF writable(Field_access(leaves[n][2])) /\ ~writable(access)
        THEN access_error(node, leaves[n][1],
                 "Field {} is writable, but register access mode is '{}'")
        ELSE Register_init_fields(access, node, n + 1,
                 width_add(width, shape_width(leaves[n][2])))

\* Register.__init__(access, fields): the new Register or the exception.
Register_init(access, node) ==
    IF access \notin {"r", "w", "rw"}
    THEN Raise("ValueError",
               "Access mode must be one of \"r\", \"w\", or \"rw\"")
    ELSE IF node.t \notin {"FieldMap", "FieldArray"}
    THEN Raise("TypeError",
               "Field collection must be a FieldMap or a FieldArray")
    ELSE Register_init_fields(access, node, 1, 0)

\* Variant: every slice is one bit wide.
slice_stop_one(start, width) == start + 1

\* Register.elaborate: field_slice.stop of
\* slice(field_start, field_start + Shape.cast(field.shape).width)
slice_stop(start, width) == start + width

RECURSIVE elaborate_field_start(_, _)

\* Register.elaborate: field_start when the loop reaches the k-th leaf
\* (field_start = 0; ...; field_start = field_slice.stop).
elaborate_field_start(leaves, k) ==
    IF k = 1 THEN 0
    ELSE slice_stop(elaborate_field_start(leaves, k - 1),
                    shape_width(leaves[k - 1][2]))

\* Register.elaborate: the field_slice of every leaf of the register, in
\* the order of Register.__iter__.
elaborate_slices(reg) ==
    LET leaves == Flatten(reg.fields)
    IN  [k \in 1 .. Len(leaves) |->
            [start |-> elaborate_field_start(leaves, k),
             stop  |-> slice_stop(elaborate_field_start(leaves, k),
                                  shape_width(leaves[k][2]))]]

----------------------------------------------------------------------------
(* Cluster (reg.py): a group of registers placed in a memory map.  The     *)
(* MemoryMap class is imported from ..memory; the operators named          *)
(* MemoryMap_* follow its stated contract: a map is empty when created,    *)
(* freeze() is permanent, and add_resource() fails on a frozen map and on  *)
(* an address that is already occupied.                                    *)

VARIABLES
    cluster     \* the Cluster object: its access mode and its memory map

\* Largest number of registers placed in one cluster.
MaxRegs == 2

MemoryMap_init(data_width) ==
    [data_width |-> data_width, resources |-> <<>>, frozen |-> FALSE]

MemoryMap_freeze(map) == [map EXCEPT !.frozen = TRUE]

\* The first address after the resources placed so far.
MemoryMap_next_addr(map) ==
    IF Len(map.resources) = 0 THEN 0
    ELSE LET last == map.resources[Len(map.resources)]
         IN  last.start + last.size

\* MemoryMap.add_resource: the outcome and the map after the call.  With addr
\* None the resource is placed at the next free address.
MemoryMap_add_resource(map, resource, name, size, addr) ==
    IF map.frozen
    THEN [out |-> Raise("ValueError", "Memory map has been frozen"),
          map |-> map]
    ELSE IF addr # None /\ addr.n < MemoryMap_next_addr(map)
    THEN [out |-> Raise("ValueError", "Address range overlaps a resource"),
          map |-> map]
    ELSE [out |-> None,
          map |-> [map EXCEPT !.resources =
                      Append(@, [resource |-> resource, name |-> name,
                                 size |-> size,
                                 start |-> IF addr = None
                                           THEN MemoryMap_next_addr(map)
                                           ELSE addr.n])]]

\* Cluster.__init__
Cluster_init(access, data_width) ==
    IF access \notin {"r", "w", "rw"}
    THEN Raise("ValueError",
               "Access mode must be one of \"r\", \"w\", or \"rw\"")
    ELSE [t |-> "Cluster", access |-> access,
          map |-> MemoryMap_init(data_width)]

\* Cluster.freeze
Cluster_freeze(self) == [self EXCEPT !.map = MemoryMap_freeze(@)]

\* Variant: reading memory_map returns the map without freezing it.
Cluster_memory_map_unfrozen(self) == self

\* Cluster.memory_map: the cluster after the attribute was read; the value
\* read is its map.
Cluster_memory_map(self) == [self EXCEPT !.map = MemoryMap_freeze(@)]

\* Variant: only the readable half of the access check.
Cluster_add_access_error_readable(self, reg, name) ==
    IF readable(reg.access) /\ ~readable(self.access)
    THEN RaiseNamed("ValueError",
                    "Register is readable, but cluster access mode is "
                        \o self.access, name)
    ELSE None

\* Cluster.add, the two access checks: the exception raised, or None.
\* reg.access is reg.element.access.
Cluster_add_access_error(self, reg, name) ==
    IF readable(reg.access) /\ ~readable(self.access)
    THEN RaiseNamed("ValueError",
                    "Register is readable, but cluster access mode is "
                        \o self.access, name)
    ELSE IF writable(reg.access) /\ ~writable(self.access)
    THEN RaiseNamed("ValueError",
                    "Register is writable, but cluster access mode is "
                        \o self.access, name)
    ELSE None

\* Cluster.add, size of the register in data_width units:
\* (reg.element.width + data_width - 1) // data_width
Cluster_add_size(self, reg) ==
    (reg.width + self.map.data_width - 1) \div self.map.data_width

\* Cluster.add: the outcome (the register, or the exception raised) and the
\* cluster after the call.
Cluster_add(self, reg, name, addr) ==
    IF reg.t # "Register"
    THEN [out |-> Raise("TypeError",
                        "Register must be an instance of csr.Register"),
          self |-> self]
    ELSE IF Cluster_add_access_error(self, reg, name) # None
    THEN [out |-> Cluster_add_access_error(self, reg, name), self |-> self]
    ELSE LET added == MemoryMap_add_resource(
                          self.map, [width |-> reg.width,
                                     access |-> reg.access],
                          name, Cluster_add_size(self, reg), addr)
         IN  IF Raised(added.out)
             THEN [out |-> added.out, self |-> self]
             ELSE [out |-> reg,
                   self |-> [self EXCEPT !.map = added.map]]

----------------------------------------------------------------------------
(* Stored fields at construction time (field.py): the attributes the       *)
(* constructor assigns, and the reset property.                            *)

\* An attribute that was never assigned, and an argument that was not passed.
Unset == [t |-> "unset"]
Omitted == [t |-> "omitted"]

\* The keyword argument reset=0 of the three constructors.
reset_arg(arg) == IF arg = Omitted THEN PyInt(0) ELSE arg

\* RW.__init__: _storage = Signal(shape, reset=reset); _reset = reset
RW_init(shape, arg) ==
    [t |-> "RW", shape |-> shape, storage_reset |-> reset_arg(arg),
     reset_attr |-> reset_arg(arg)]

\* RW1C.__init__: set, _storage and _reset are assigned.
RW1C_init(shape, arg) ==
    [t |-> "RW1C", shape |-> shape, storage_reset |-> reset_arg(arg),
     reset_attr |-> reset_arg(arg)]

\* RW1S.__init__: clear and _storage are assigned, _reset is not.
RW1S_init(shape, arg) ==
    [t |-> "RW1S", shape |-> shape, storage_reset |-> reset_arg(arg),
     reset_attr |-> Unset]

\* The reset property of RW, RW1C and RW1S: return self._reset
Field_reset(self) ==
    IF self.reset_attr = Unset
    THEN Raise("AttributeError",
               "'" \o self.t \o "' object has no attribute '_reset'")
    ELSE self.reset_attr

----------------------------------------------------------------------------
(* EventSource (periph.py): one event line of a peripheral.                *)

VARIABLES
    event,      \* the EventSource object and its signals (None if none)
    cycles      \* the clock cycles elapsed: trigger and en sampled at each edge

\* Largest number of clock cycles an event source is followed for.
MaxCycles == 4

\* EventSource.__init__: trigger = Signal(), en = Signal(); trigger_r is the
\* register elaborate() adds in the edge modes, 0 at reset.
EventSource_init(mode) ==
    IF mode \notin {"level", "rise", "fall"}
    THEN Raise("ValueError",
               "Invalid trigger mode; must be one of level, rise, fall")
    ELSE [t |-> "EventSource", mode |-> mode, trigger |-> 0, trigger_r |-> 0]

\* Variant: the rise mode does not look at the registered trigger.
EventSource_en_no_edge(mode, trigger, trigger_r) ==
    IF mode = "level" THEN trigger
    ELSE IF mode = "rise" THEN trigger
    ELSE IF trigger_r = 1 /\ trigger = 0 THEN 1 ELSE 0

\* EventSource.elaborate, comb domain: en
EventSource_en(mode, trigger, trigger_r) ==
    IF mode = "level" THEN trigger
    ELSE IF mode = "rise"
    THEN (IF trigger_r = 0 /\ trigger = 1 THEN 1 ELSE 0)
    ELSE IF trigger_r = 1 /\ trigger = 0 THEN 1 ELSE 0

\* EventSource.elaborate, sync domain: trigger_r after the clock edge.  The
\* level mode has no such register.
EventSource_sync(mode, trigger, trigger_r) ==
    IF mode \in {"rise", "fall"} THEN trigger ELSE trigger_r

----------------------------------------------------------------------------
(* InterruptSource (periph.py): the status, pending and enable registers   *)
(* over the event sources of a peripheral.  elaborate() reads each source  *)
(* as a (trigger, event) pair; bit i belongs to source i.                  *)

VARIABLES
    isrc,       \* r_data of the status, pending and enable elements
    isrc_in,    \* en of every event, w_stb and w_data of pending and enable
    isrc_old,   \* isrc before the last clock edge
    isrc_pc     \* "reset", "drive" (inputs changed) or "tick" (edge taken)

xvars == <<cluster, event, cycles, isrc, isrc_in, isrc_old, isrc_pc>>

\* Number of event sources of the interrupt source.
NSources == 1

Source == 0 .. NSources - 1
SourceVec == [Source -> {0, 1}]
SourceZero == [i \in Source |-> 0]

\* Variant: a write of 1 clears the pending bit even if its event fires.
InterruptSource_pending_sync_clear_wins(inp, st, i) ==
    IF inp.p_w_stb = 1
    THEN (IF inp.p_w_data[i] = 1 THEN 0
          ELSE IF inp.en[i] = 1 THEN 1 ELSE st.pending[i])
    ELSE IF inp.en[i] = 1 THEN 1 ELSE st.pending[i]

\* InterruptSource.elaborate, sync domain, bit i of _pending.r_data: the
\* assignment under m.If(event.en) comes after the one under
\* m.If(_pending.w_stb) and overrides it.
InterruptSource_pending_sync(inp, st, i) ==
    IF inp.en[i] = 1 THEN 1
    ELSE IF inp.p_w_stb = 1
    THEN (IF st.pending[i] = 1 /\ inp.p_w_data[i] = 0 THEN 1 ELSE 0)
    ELSE st.pending[i]

\* Variant: the enable register follows w_data whatever the strobe.
InterruptSource_enable_sync_no_stb(inp, st) == inp.e_w_data

\* InterruptSource.elaborate, sync domain: _enable.r_data
InterruptSource_enable_sync(inp, st) ==
    IF inp.e_w_stb = 1 THEN inp.e_w_data ELSE st.enable

\* InterruptSource.elaborate, sync domain: the three registers after the edge.
InterruptSource_sync(inp, st) ==
    [status  |-> [i \in Source |-> inp.en[i]],
     pending |-> [i \in Source |-> InterruptSource_pending_sync(inp, st, i)],
     enable  |-> InterruptSource_enable_sync(inp, st)]

\* InterruptSource.elaborate, comb domain:
\* irq = (_pending.r_data & _enable.r_data).any()
InterruptSource_irq(st) ==
    IF \E i \in Source : st.pending[i] = 1 /\ st.enable[i] = 1 THEN 1 ELSE 0

\* No event source has been constructed and no cycle has elapsed.
NoEvent ==
    /\ event = None
    /\ cycles = <<>>

\* The interrupt source after reset: every register and every input is 0.
IsrcReset ==
    /\ isrc = [status |-> SourceZero, pending |-> SourceZero,
               enable |-> SourceZero]
    /\ isrc_in = [en |-> SourceZero, p_w_stb |-> 0, p_w_data |-> SourceZero,
                  e_w_stb |-> 0, e_w_data |-> SourceZero]
    /\ isrc_old = isrc
    /\ isrc_pc = "reset"

\* No cluster or event source exists; the interrupt source is in reset.
PeriphIdle ==
    /\ cluster = None
    /\ NoEvent
    /\ IsrcReset

----------------------------------------------------------------------------
\* After construction: _storage holds its reset value, every other signal 0;
\* the comb domain drives both read paths from _storage.
Init ==
    /\ kind \in Kinds
    /\ storage \in BitVec
    /\ old = storage
    /\ w_stb = 0
    /\ w_data = Zero
    /\ set = Zero
    /\ clear = Zero
    /\ r_data = storage
    /\ data = storage
    /\ pc = "reset"
    /\ RegReset
    /\ NoObjects
    /\ PeriphIdle

\* The bus and the surrounding logic drive the field's input signals for the
\* running cycle.  No clock edge: the sync and comb domains are unaffected.
Drive ==
    /\ w_stb' \in {0, 1}
    /\ w_data' \in BitVec
    /\ set' \in (IF kind = "RW1C" THEN BitVec ELSE {Zero})
    /\ clear' \in (IF kind = "RW1S" THEN BitVec ELSE {Zero})
    /\ old' = storage
    /\ pc' = "drive"
    /\ UNCHANGED <<kind, storage, r_data, data>>
    /\ UNCHANGED rvars
    /\ UNCHANGED tvars
    /\ UNCHANGED xvars

\* Variant: the read paths assigned in the sync domain (one cycle late).
Comb_registered ==
    /\ r_data' = storage
    /\ data' = storage

\* The comb statements shared by the three types:
\*   port.r_data.eq(_storage), data.eq(_storage)
Comb ==
    /\ r_data' = storage'
    /\ data' = storage'

\* Clock edge of an RW field.
RW_elaborate ==
    /\ kind = "RW"
    /\ storage' = RW_sync(storage, w_stb, w_data)
    /\ Comb
    /\ old' = storage
    /\ pc' = "tick"
    /\ UNCHANGED <<kind, w_stb, w_data, set, clear>>
    /\ UNCHANGED rvars
    /\ UNCHANGED tvars
    /\ UNCHANGED xvars

\* Clock edge of an RW1C field.
RW1C_elaborate ==
    /\ kind = "RW1C"
    /\ storage' = RW1C_sync(storage, w_stb, w_data, set)
    /\ Comb
    /\ old' = storage
    /\ pc' = "tick"
    /\ UNCHANGED <<kind, w_stb, w_data, set, clear>>
    /\ UNCHANGED rvars
    /\ UNCHANGED tvars
    /\ UNCHANGED xvars

\* Clock edge of an RW1S field.
RW1S_elaborate ==
    /\ kind = "RW1S"
    /\ storage' = RW1S_sync(storage, w_stb, w_data, clear)
    /\ Comb
    /\ old' = storage
    /\ pc' = "tick"
    /\ UNCHANGED <<kind, w_stb, w_data, set, clear>>
    /\ UNCHANGED rvars
    /\ UNCHANGED tvars
    /\ UNCHANGED xvars

Next ==
    \/ Drive
    \/ RW_elaborate
    \/ RW1C_elaborate
    \/ RW1S_elaborate

Spec == Init /\ [][Next]_vars

TypeOK ==
    /\ kind \in Kinds
    /\ storage \in BitVec
    /\ old \in BitVec
    /\ w_stb \in {0, 1}
    /\ w_data \in BitVec
    /\ set \in BitVec
    /\ clear \in BitVec
    /\ r_data \in BitVec
    /\ data \in BitVec
    /\ pc \in {"reset", "drive", "tick"}

----------------------------------------------------------------------------
(* The register.  The single-field variables stay at rest.                 *)

FieldIdle ==
    /\ kind = "RW"
    /\ storage = Zero
    /\ old = Zero
    /\ w_stb = 0
    /\ w_data = Zero
    /\ set = Zero
    /\ clear = Zero
    /\ r_data = Zero
    /\ data = Zero
    /\ pc = "reset"

InitReg == FieldIdle /\ RegReset /\ NoObjects /\ PeriphIdle

\* The bus drives the strobes of the element for the running cycle.
DriveStrobes ==
    /\ el_w_stb' \in {0, 1}
    /\ el_r_stb' \in {0, 1}
    /\ f_old' = f_storage
    /\ reg_pc' = "drive"
    /\ UNCHANGED <<el_w_data, f_data_in, f_logic, f_storage, w_stb_old>>
    /\ UNCHANGED vars
    /\ UNCHANGED tvars
    /\ UNCHANGED xvars

\* The bus drives the write data of one field slice of the element for the
\* running cycle (w_data.<field>.eq(v)).
DriveData ==
    /\ \E k \in LeafIx : \E v \in Bv(LeafWidth(k)) :
         el_w_data' =
           [n \in ElBit |->
              IF field_slice[k].start <= n /\ n < field_slice[k].stop
              THEN v[n - field_slice[k].start] ELSE el_w_data[n]]
    /\ f_old' = f_storage
    /\ reg_pc' = "drive"
    /\ UNCHANGED <<el_w_stb, el_r_stb, f_data_in, f_logic, f_storage,
                   w_stb_old>>
    /\ UNCHANGED vars
    /\ UNCHANGED tvars
    /\ UNCHANGED xvars

\* The surrounding logic drives, for the running cycle, data of an R field
\* or set / clear of an RW1C / RW1S field.
DriveLogic ==
    /\ \/ \E id \in InputIds : \E v \in Bv(FieldDef[id].width) :
            /\ f_data_in' = [f_data_in EXCEPT ![id] = v]
            /\ UNCHANGED f_logic
       \/ \E id \in StoredIds : \E v \in Bv(FieldDef[id].width) :
            /\ f_logic' = [f_logic EXCEPT ![id] = v]
            /\ UNCHANGED f_data_in
    /\ f_old' = f_storage
    /\ reg_pc' = "drive"
    /\ UNCHANGED <<el_w_stb, el_r_stb, el_w_data, f_storage, w_stb_old>>
    /\ UNCHANGED vars
    /\ UNCHANGED tvars
    /\ UNCHANGED xvars

\* Clock edge of the elaborated register: the sync domain of every field
\* submodule advances at once.
Register_elaborate ==
    /\ f_storage' = [id \in StoredIds |-> field_sync(id)]
    /\ f_old' = f_storage
    /\ w_stb_old' = el_w_stb
    /\ reg_pc' = "tick"
    /\ UNCHANGED <<el_w_stb, el_r_stb, el_w_data, f_data_in, f_logic>>
    /\ UNCHANGED vars
    /\ UNCHANGED tvars
    /\ UNCHANGED xvars

NextReg ==
    \/ DriveStrobes
    \/ DriveData
    \/ DriveLogic
    \/ Register_elaborate

SpecReg == InitReg /\ [][NextReg]_<<vars, rvars>>

----------------------------------------------------------------------------
(* A W field on its own.  It has no _storage and no sync statement: data   *)
(* is a comb copy of port.w_data.  old holds data before the last event.   *)

\* W.__init__(shape): Field.__init__ creates data = Signal(shape).
InitW ==
    /\ kind = "W"
    /\ storage = Zero
    /\ old = Zero
    /\ w_stb = 0
    /\ w_data = Zero
    /\ set = Zero
    /\ clear = Zero
    /\ r_data = Zero
    /\ data = Zero
    /\ pc = "reset"
    /\ RegReset
    /\ NoObjects
    /\ PeriphIdle

\* W.elaborate: m.d.comb += self.data.eq(self.port.w_data)
W_comb(stb, d) == d

\* The bus drives port.w_stb and port.w_data; the comb domain follows.
W_Drive ==
    /\ w_stb' \in {0, 1}
    /\ w_data' \in BitVec
    /\ data' = W_comb(w_stb', w_data')
    /\ old' = data
    /\ pc' = "drive"
    /\ UNCHANGED <<kind, storage, set, clear, r_data>>
    /\ UNCHANGED rvars
    /\ UNCHANGED tvars
    /\ UNCHANGED xvars

\* Clock edge of a W field: there is nothing in its sync domain.
W_elaborate ==
    /\ data' = W_comb(w_stb, w_data)
    /\ old' = data
    /\ pc' = "tick"
    /\ UNCHANGED <<kind, storage, w_stb, w_data, set, clear, r_data>>
    /\ UNCHANGED rvars
    /\ UNCHANGED tvars
    /\ UNCHANGED xvars

NextW ==
    \/ W_Drive
    \/ W_elaborate

SpecW == InitW /\ [][NextW]_<<vars, rvars>>

----------------------------------------------------------------------------
(* Field trees: collections are built from Field objects and from the      *)
(* collection built last, then flattened, indexed, and wrapped in a        *)
(* Register whose slices are laid out.  The hardware variables stay at     *)
(* rest.                                                                   *)

\* Largest number of objects (fields and collections) in a tree.
MaxNodes == 4
\* Largest length of a FieldArray.
MaxLen == 2

RECURSIVE Nodes(_)
RECURSIVE NodesFrom(_, _)

\* Number of objects of the entries n .. of a FieldMap.
NodesFrom(entries, n) ==
    IF n > Len(entries) THEN 0
    ELSE Nodes(entries[n][2]) + NodesFrom(entries, n + 1)

\* Number of objects a tree is made of.
Nodes(v) ==
    IF v.t = "Field" THEN 1
    ELSE IF v.t = "FieldArray" THEN 1 + Nodes(v.field)
    ELSE 1 + NodesFrom(v.fields, 1)

Names == {"a", "b"}

\* The dicts of one or two entries with the given names and values.
Dicts(names, values) ==
    {Dict(<< <<k, v>> >>) : k \in names, v \in values}
    \cup {Dict(<< <<e[1], e[2]>>, <<e[3], e[4]>> >>) :
            e \in {c \in names \X values \X names \X values : c[1] # c[3]}}

\* Values a tree is built from: three Field objects and the collection
\* built last.
TreeValues ==
    {FieldNode("p"), FieldNode("w"), FieldNode("s")}
    \cup (IF obj = None THEN {} ELSE {obj})

\* Keys a FieldArray is indexed with.
IndexArgs ==
    {PyStr("a")} \cup {PyInt(n) : n \in (0 - MaxLen - 1) .. MaxLen}

InitTree == FieldIdle /\ RegReset /\ NoObjects /\ PeriphIdle

\* obj = FieldMap({...}) with well-formed entries.
Tree_FieldMap ==
    /\ \E arg \in Dicts({PyStr(k) : k \in Names}, TreeValues) :
         LET out == FieldMap_init(arg)
         IN  /\ Nodes(out) <= MaxNodes
             /\ obj' = out
             /\ res' = [op |-> "FieldMap", arg |-> arg, out |-> out]
    /\ UNCHANGED <<other, vars, rvars>>
    /\ UNCHANGED xvars

\* obj = FieldArray(field, length) with a positive length.
Tree_FieldArray ==
    /\ \E field \in TreeValues : \E length \in 1 .. MaxLen :
         LET out == FieldArray_init(field, PyInt(length))
         IN  /\ Nodes(out) <= MaxNodes
             /\ obj' = out
             /\ res' = [op |-> "FieldArray", field |-> field,
                        length |-> PyInt(length), out |-> out]
    /\ UNCHANGED <<other, vars, rvars>>
    /\ UNCHANGED xvars

\* obj[key] on a FieldArray.
Tree_getitem ==
    /\ obj.t = "FieldArray"
    /\ \E key \in IndexArgs :
         res' = [op |-> "getitem", key |-> key,
                 out |-> FieldArray_getitem(obj, key)]
    /\ UNCHANGED <<obj, other, vars, rvars>>
    /\ UNCHANGED xvars

\* list(obj.flatten())
Tree_flatten ==
    /\ obj # None
    /\ res' = [op |-> "flatten", out |-> Flatten(obj)]
    /\ UNCHANGED <<obj, other, vars, rvars>>
    /\ UNCHANGED xvars

\* Register(access, obj)
Tree_Register ==
    /\ obj # None
    /\ \E access \in {"r", "w", "rw"} :
         res' = [op |-> "Register", access |-> access,
                 out |-> Register_init(access, obj)]
    /\ UNCHANGED <<obj, other, vars, rvars>>
    /\ UNCHANGED xvars

\* Register.elaborate of the register constructed last: its slices.
Tree_elaborate ==
    /\ res # None /\ res.op = "Register" /\ res.out.t = "Register"
    /\ res' = [op |-> "elaborate", reg |-> res.out,
               slices |-> elaborate_slices(res.out)]
    /\ UNCHANGED <<obj, other, vars, rvars>>
    /\ UNCHANGED xvars

NextTree ==
    \/ Tree_FieldMap
    \/ Tree_FieldArray
    \/ Tree_getitem
    \/ Tree_flatten
    \/ Tree_Register
    \/ Tree_elaborate

SpecTree == InitTree /\ [][NextTree]_tvars

----------------------------------------------------------------------------
(* Constructor calls with arguments of every kind, well-formed or not.     *)

\* Keys of the dicts handed to FieldMap: two names, the empty string, an int.
KeyArgs == {PyStr("a"), PyStr("b"), PyStr(""), PyInt(1)}

\* Values handed to the constructors: two fields, a FieldMap, a FieldArray
\* and a string.
ValueArgs ==
    {FieldNode("p"), FieldNode("w"),
     FieldMapNode(<< <<"a", FieldNode("p")>> >>),
     FieldArrayNode(FieldNode("w"), 2),
     PyStr("foo")}

\* Lengths handed to FieldArray.
LengthArgs == {PyStr("foo")} \cup {PyInt(n) : n \in -1 .. MaxLen}

\* FieldMap(arg): a string, the empty dict or a dict of one or two entries.
New_FieldMap ==
    /\ \E arg \in {PyStr("foo"), Dict(<< >>)} \cup Dicts(KeyArgs, ValueArgs) :
         res' = [op |-> "FieldMap", arg |-> arg, out |-> FieldMap_init(arg)]
    /\ UNCHANGED <<obj, other, vars, rvars>>
    /\ UNCHANGED xvars

\* FieldArray(field, length)
New_FieldArray ==
    /\ \E field \in ValueArgs : \E length \in LengthArgs :
         res' = [op |-> "FieldArray", field |-> field, length |-> length,
                 out |-> FieldArray_init(field, length)]
    /\ UNCHANGED <<obj, other, vars, rvars>>
    /\ UNCHANGED xvars

NextNew ==
    \/ New_FieldMap
    \/ New_FieldArray

SpecNew == InitTree /\ [][NextNew]_tvars

----------------------------------------------------------------------------
(* Two collections, built one after the other from four Field objects,     *)
(* and compared.                                                           *)

EqValues ==
    {FieldNode("p"), FieldNode("q"), FieldNode("w"), FieldNode("r")}

\* other, obj = obj, FieldMap({...})
Eq_FieldMap ==
    /\ \E arg \in Dicts({PyStr(k) : k \in Names}, EqValues) :
         /\ obj' = FieldMap_init(arg)
         /\ res' = [op |-> "FieldMap", arg |-> arg, out |-> obj']
    /\ other' = obj
    /\ UNCHANGED <<vars, rvars>>
    /\ UNCHANGED xvars

\* other, obj = obj, FieldArray(field, length)
Eq_FieldArray ==
    /\ \E field \in EqValues : \E length \in 1 .. MaxLen :
         /\ obj' = FieldArray_init(field, PyInt(length))
         /\ res' = [op |-> "FieldArray", field |-> field,
                    length |-> PyInt(length), out |-> obj']
    /\ other' = obj
    /\ UNCHANGED <<vars, rvars>>
    /\ UNCHANGED xvars

\* obj == other
Eq_compare ==
    /\ obj # None /\ other # None
    /\ res' = [op |-> "eq", out |-> Value_eq(obj, other)]
    /\ UNCHANGED <<obj, other, vars, rvars>>
    /\ UNCHANGED xvars

NextEq ==
    \/ Eq_FieldMap
    \/ Eq_FieldArray
    \/ Eq_compare

SpecEq == InitTree /\ [][NextEq]_tvars

----------------------------------------------------------------------------
(* A cluster, and the calls made on it.                                    *)

\* The registers handed to add(): one field of ObjDef each, under every
\* access mode the Register constructor accepts for it.
ClusterRegs ==
    {x \in {Register_init(a, FieldMap_init(
                         Dict(<< <<PyStr("a"), FieldNode(id)>> >>))) :
               a \in {"r", "w", "rw"}, id \in {"p", "w", "s"}} : ~Raised(x)}

\* Arguments of add(): registers, and values that are not registers.
AddArgs == ClusterRegs \cup {None, FieldNode("p")}
AddrArgs == {None, PyInt(0)}

InitCluster ==
    /\ FieldIdle /\ RegReset /\ NoObjects /\ NoEvent /\ IsrcReset
    /\ cluster \in {Cluster_init(a, dw) : a \in {"r", "w", "rw"},
                                           dw \in {1, Width}}

\* cluster.add(reg, name=name, addr=addr)
Cluster_call_add ==
    /\ \E reg \in AddArgs, name \in Names, addr \in AddrArgs :
         LET call == Cluster_add(cluster, reg, name, addr)
         IN  /\ Len(call.self.map.resources) <= MaxRegs
             /\ cluster' = call.self
             /\ res' = [op |-> "add", reg |-> reg, name |-> name,
                        addr |-> addr, before |-> cluster, out |-> call.out]
    /\ UNCHANGED <<obj, other, event, cycles, isrc, isrc_in, isrc_old,
                   isrc_pc, vars, rvars>>

\* cluster.freeze()
Cluster_call_freeze ==
    /\ cluster' = Cluster_freeze(cluster)
    /\ res' = [op |-> "freeze", before |-> cluster, out |-> None]
    /\ UNCHANGED <<obj, other, event, cycles, isrc, isrc_in, isrc_old,
                   isrc_pc, vars, rvars>>

\* cluster.memory_map
Cluster_read_memory_map ==
    /\ cluster' = Cluster_memory_map(cluster)
    /\ res' = [op |-> "memory_map", before |-> cluster,
               out |-> Cluster_memory_map(cluster).map]
    /\ UNCHANGED <<obj, other, event, cycles, isrc, isrc_in, isrc_old,
                   isrc_pc, vars, rvars>>

NextCluster ==
    \/ Cluster_call_add
    \/ Cluster_call_freeze
    \/ Cluster_read_memory_map

SpecCluster == InitCluster /\ [][NextCluster]_<<cluster, res>>

----------------------------------------------------------------------------
(* A stored field is constructed, then its reset property is read.         *)

\* Values of the reset argument of a field of the given width.
ResetArgs(shape) == {Omitted} \cup {PyInt(n) : n \in 0 .. 2^shape - 1}

\* RW(shape, reset=arg), RW1C(shape, reset=arg) or RW1S(shape, reset=arg):
\* obj is the field, other the call that constructed it.
Field_new ==
    /\ \E shape \in 1 .. Width :
         \E arg \in ResetArgs(shape) :
           \/ /\ obj' = RW_init(shape, arg)
              /\ other' = [op |-> "RW", shape |-> shape, reset |-> arg]
           \/ /\ obj' = RW1C_init(shape, arg)
              /\ other' = [op |-> "RW1C", shape |-> shape, reset |-> arg]
           \/ /\ obj' = RW1S_init(shape, arg)
              /\ other' = [op |-> "RW1S", shape |-> shape, reset |-> arg]
    /\ res' = None
    /\ UNCHANGED <<vars, rvars>>
    /\ UNCHANGED xvars

\* obj.reset
Field_read_reset ==
    /\ obj # None
    /\ res' = [op |-> "reset", out |-> Field_reset(obj)]
    /\ UNCHANGED <<obj, other, vars, rvars>>
    /\ UNCHANGED xvars

NextField ==
    \/ Field_new
    \/ Field_read_reset

SpecField == InitTree /\ [][NextField]_tvars

----------------------------------------------------------------------------
(* An event source: constructed, then clocked for up to MaxCycles cycles.  *)

ModeArgs == {"level", "rise", "fall", "edge", "high"}

\* EventSource(mode=mode)
Event_new ==
    /\ event = None
    /\ \E mode \in ModeArgs :
         LET out == EventSource_init(mode)
         IN  /\ res' = [op |-> "EventSource", mode |-> mode, out |-> out]
             /\ event' = IF Raised(out) THEN None ELSE out
    /\ UNCHANGED <<obj, other, cluster, cycles, isrc, isrc_in, isrc_old,
                   isrc_pc, vars, rvars>>

\* The peripheral drives the trigger line for the running cycle.
Event_drive ==
    /\ event # None
    /\ \E v \in {0, 1} : event' = [event EXCEPT !.trigger = v]
    /\ UNCHANGED <<obj, other, res, cluster, cycles, isrc, isrc_in,
                   isrc_old, isrc_pc, vars, rvars>>

\* One clock edge of the elaborated event source; the cycle that ends is
\* recorded with its trigger and its en.
EventSource_elaborate ==
    /\ event # None
    /\ Len(cycles) < MaxCycles
    /\ cycles' = Append(cycles,
                        [trigger |-> event.trigger,
                         en |-> EventSource_en(event.mode, event.trigger,
                                               event.trigger_r)])
    /\ event' = [event EXCEPT !.trigger_r =
                    EventSource_sync(event.mode, event.trigger,
                                     event.trigger_r)]
    /\ UNCHANGED <<obj, other, res, cluster, isrc, isrc_in, isrc_old,
                   isrc_pc, vars, rvars>>

NextEvent ==
    \/ Event_new
    \/ Event_drive
    \/ EventSource_elaborate

SpecEvent == InitTree /\ [][NextEvent]_<<event, cycles, res>>

----------------------------------------------------------------------------
(* The interrupt source: the events and the bus drive its inputs, then the *)
(* clock ticks.                                                            *)

\* The event sources drive en for the running cycle.
Isrc_drive_events ==
    /\ \E v \in SourceVec : isrc_in' = [isrc_in EXCEPT !.en = v]
    /\ isrc_old' = isrc
    /\ isrc_pc' = "drive"
    /\ UNCHANGED <<isrc, obj, other, res, cluster, event, cycles, vars,
                   rvars>>

\* The bus drives w_stb and w_data of the pending element.
Isrc_drive_pending ==
    /\ \E stb \in {0, 1}, d \in SourceVec :
         isrc_in' = [isrc_in EXCEPT !.p_w_stb = stb, !.p_w_data = d]
    /\ isrc_old' = isrc
    /\ isrc_pc' = "drive"
    /\ UNCHANGED <<isrc, obj, other, res, cluster, event, cycles, vars,
                   rvars>>

\* The bus drives w_stb and w_data of the enable element.
Isrc_drive_enable ==
    /\ \E stb \in {0, 1}, d \in SourceVec :
         isrc_in' = [isrc_in EXCEPT !.e_w_stb = stb, !.e_w_data = d]
    /\ isrc_old' = isrc
    /\ isrc_pc' = "drive"
    /\ UNCHANGED <<isrc, obj, other, res, cluster, event, cycles, vars,
                   rvars>>

\* One clock edge of the elaborated interrupt source.
InterruptSource_elaborate ==
    /\ isrc' = InterruptSource_sync(isrc_in, isrc)
    /\ isrc_old' = isrc
    /\ isrc_pc' = "tick"
    /\ UNCHANGED <<isrc_in, obj, other, res, cluster, event, cycles, vars,
                   rvars>>

NextIrq ==
    \/ Isrc_drive_events
    \/ Isrc_drive_pending
    \/ Isrc_drive_enable
    \/ InterruptSource_elaborate

SpecIrq == InitTree /\ [][NextIrq]_<<isrc, isrc_in, isrc_old, isrc_pc>>

----------------------------------------------------------------------------
(* Word-level operators used to state the properties.                      *)

BvAnd(a, b) == [i \in Bit |-> IF a[i] = 1 /\ b[i] = 1 THEN 1 ELSE 0]
BvOr(a, b)  == [i \in Bit |-> IF a[i] = 1 \/ b[i] = 1 THEN 1 ELSE 0]
BvNot(a)    == [i \in Bit |-> 1 - a[i]]
\* The word d when the strobe is 1, the zero word otherwise.
Gate(stb, d) == IF stb = 1 THEN d ELSE Zero
Disjoint(a, b) == \A i \in Bit : ~(a[i] = 1 /\ b[i] = 1)

\* The logic-side write enable of bit i: set[i] of an RW1C, clear[i] of an
\* RW1S; an RW field has none.
LogicEnable(i) ==
    \/ kind = "RW1C" /\ set[i] = 1
    \/ kind = "RW1S" /\ clear[i] = 1

\* A clock edge has just been taken: old and the inputs are those of the
\* cycle it ended.
Ticked == pc = "tick"

----------------------------------------------------------------------------
\* C1: a storage bit differs after the clock edge from its value before the
\* edge only if the bus write strobe or the bit's logic-side enable (set[i]
\* of an RW1C, clear[i] of an RW1S) was asserted in that cycle; with neither
\* asserted the bit holds.
C1_FrameHold ==
    Ticked => \A i \in Bit :
        storage[i] # old[i] => (w_stb = 1 \/ LogicEnable(i))

\* C1 witness: an edge of an RW1C field with the strobe low where the bit
\* the logic sets changes and a bit nobody enables holds its 1.
C1_Witness ==
    /\ Ticked /\ kind = "RW1C" /\ w_stb = 0
    /\ \E i \in Bit : set[i] = 1 /\ old[i] = 0 /\ storage[i] = 1
    /\ \E j \in Bit : set[j] = 0 /\ old[j] = 1 /\ storage[j] = 1

C3_RW1C_SetWins ==
    Ticked /\ kind = "RW1C" /\ w_stb = 1 =>
        /\ \A i \in Bit :
             /\ w_data[i] = 1 /\ set[i] = 1 => storage[i] = 1
             /\ w_data[i] = 1 /\ set[i] = 0 => storage[i] = 0
        /\ old = Bin(7) /\ w_data = Bin(7) /\ set = Bin(1) => storage = Bin(1)

\* C3 witness: the contention of the example has been clocked.
C3_Witness ==
    /\ Ticked /\ kind = "RW1C" /\ w_stb = 1
    /\ old = Bin(7) /\ w_data = Bin(7) /\ set = Bin(1) /\ storage = Bin(1)

\* C4: RW1S same-bit contention: a bit the bus sets (strobe, data 1) and the
\* logic clears in the same cycle is 1 afterwards whatever it was; 0b100
\* with bus data 0b111 and clear 0b111 gives 0b111.
C4_RW1S_SetWins ==
    Ticked /\ kind = "RW1S" /\ w_stb = 1 =>
        /\ \A i \in Bit : w_data[i] = 1 /\ clear[i] = 1 => storage[i] = 1
        /\ old = Bin(4) /\ w_data = Bin(7) /\ clear = Bin(7) => storage = Bin(7)

\* C4 witness: the contention of the example has been clocked.
C4_Witness ==
    /\ Ticked /\ kind = "RW1S" /\ w_stb = 1
    /\ old = Bin(4) /\ w_data = Bin(7) /\ clear = Bin(7) /\ storage = Bin(7)

\* C5: with the strobe asserted and the bus mask A = w_data disjoint from
\* the logic mask B, both updates land: RW1C gives (s AND NOT A) OR B, RW1S
\* gives (s OR A) AND NOT B.
C5_DisjointBothLand ==
    Ticked /\ w_stb = 1 =>
        /\ kind = "RW1C" /\ Disjoint(w_data, set) =>
             storage = BvOr(BvAnd(old, BvNot(w_data)), set)
        /\ kind = "RW1S" /\ Disjoint(w_data, clear) =>
             storage = BvAnd(BvOr(old, w_data), BvNot(clear))

\* C5 witness: an RW1S edge where the bus sets one bit and the logic clears
\* another one, and both bits changed.
C5_Witness ==
    /\ Ticked /\ kind = "RW1S" /\ w_stb = 1 /\ Disjoint(w_data, clear)
    /\ \E i \in Bit : w_data[i] = 1 /\ old[i] = 0 /\ storage[i] = 1
    /\ \E j \in Bit : clear[j] = 1 /\ old[j] = 1 /\ storage[j] = 0

\* C6: RW1C bus write with no logic set in the cycle: with the strobe the
\* storage becomes s AND NOT d, without the strobe the write data has no
\* effect.
C6_RW1C_BusWrite ==
    Ticked /\ kind = "RW1C" /\ set = Zero =>
        /\ w_stb = 1 => storage = BvAnd(old, BvNot(w_data))
        /\ w_stb = 0 => storage = old

\* C6 witness: 0b111 written with 0b010 has become 0b101.
C6_Witness ==
    /\ Ticked /\ kind = "RW1C" /\ set = Zero /\ w_stb = 1
    /\ old = Bin(7) /\ w_data = Bin(2) /\ storage = Bin(5)

\* C7: RW1S bus write with no logic clear in the cycle: with the strobe the
\* storage becomes s OR d, without the strobe the write data has no effect.
C7_RW1S_BusWrite ==
    Ticked /\ kind = "RW1S" /\ clear = Zero =>
        /\ w_stb = 1 => storage = BvOr(old, w_data)
        /\ w_stb = 0 => storage = old

\* C7 witness: 0b000 written with 0b110 has become 0b110.
C7_Witness ==
    /\ Ticked /\ kind = "RW1S" /\ clear = Zero /\ w_stb = 1
    /\ old = Bin(0) /\ w_data = Bin(6) /\ storage = Bin(6)

\* C8: the next storage of an RW field is the bus write data when the write
\* strobe is asserted and the unchanged storage otherwise; the field has no
\* logic-side input (set and clear stay 0 for it).
C8_RW_Write ==
    kind = "RW" =>
        /\ set = Zero /\ clear = Zero
        /\ Ticked /\ w_stb = 1 => storage = w_data
        /\ Ticked /\ w_stb = 0 => storage = old

\* C8 witness: a strobed write that replaced some 1 bits by 0 and some 0
\* bits by 1.
C8_Witness ==
    /\ Ticked /\ kind = "RW" /\ w_stb = 1 /\ storage = w_data
    /\ \E i \in Bit : old[i] = 1 /\ storage[i] = 0
    /\ \E j \in Bit : old[j] = 0 /\ storage[j] = 1

\* C9: logic-side write with the strobe deasserted: an RW1C becomes s OR set
\* (logic can only set), an RW1S becomes s AND NOT clear (logic can only
\* clear), bits not enabled hold; RW1C 0b101 with 0b010 gives 0b111, RW1S
\* 0b110 with 0b010 gives 0b100.
C9_LogicWrite ==
    Ticked /\ w_stb = 0 =>
        /\ kind = "RW1C" =>
             /\ storage = BvOr(old, set)
             /\ old = Bin(5) /\ set = Bin(2) => storage = Bin(7)
        /\ kind = "RW1S" =>
             /\ storage = BvAnd(old, BvNot(clear))
             /\ old = Bin(6) /\ clear = Bin(2) => storage = Bin(4)

\* C9 witness: the RW1C example has been clocked while the bus presents
\* write data without a strobe.
C9_Witness ==
    /\ Ticked /\ kind = "RW1C" /\ w_stb = 0 /\ w_data = Bin(7)
    /\ old = Bin(5) /\ set = Bin(2) /\ storage = Bin(7)

\* C10: while a cycle runs, both read paths show the storage as the previous
\* edge left it, not the value being written; after the edge both show what
\* the enabled write of that cycle produced.
C10_WriteThenRead ==
    /\ pc = "drive" => r_data = old /\ data = old
    /\ r_data = storage /\ data = storage
    /\ Ticked /\ kind = "RW" /\ w_stb = 1 => r_data = w_data /\ data = w_data
    /\ Ticked /\ kind = "RW1C" => \A i \in Bit :
         /\ set[i] = 1 => r_data[i] = 1 /\ data[i] = 1
         /\ set[i] = 0 /\ w_stb = 1 /\ w_data[i] = 1 =>
              r_data[i] = 0 /\ data[i] = 0
    /\ Ticked /\ kind = "RW1S" => \A i \in Bit :
         /\ w_stb = 1 /\ w_data[i] = 1 => r_data[i] = 1 /\ data[i] = 1
         /\ ~(w_stb = 1 /\ w_data[i] = 1) /\ clear[i] = 1 =>
              r_data[i] = 0 /\ data[i] = 0

\* C10 witness: after the edge of a strobed RW write that changes the
\* storage, both read paths show the written data.
C10_Witness ==
    /\ Ticked /\ kind = "RW" /\ w_stb = 1 /\ w_data # old
    /\ r_data = w_data /\ data = w_data

----------------------------------------------------------------------------
\* C11 (as claimed): the value a W field presents to the logic starts at
\* the reset value, changes only at a clock edge that ends a cycle with the
\* write strobe asserted, taking that cycle's write data, and holds
\* otherwise; write data without the strobe never changes it.
C11_W_Registered ==
    kind = "W" =>
        /\ pc = "reset" => data = Zero
        /\ pc = "drive" => data = old
        /\ pc = "tick" => data = (IF w_stb = 1 THEN w_data ELSE old)

\* C12 (as claimed): while a cycle runs, the read strobe of every writable
\* field is the bus write strobe of the previous cycle (whichever of the two
\* strobes of the field's port is taken for it), and a field that is not
\* writable never sees one.
C12_DelayedStrobe ==
    \A id \in FieldIds :
        /\ Writable(id) =>
             (port_w_stb(id) = w_stb_old \/ port_r_stb(id) = w_stb_old)
        /\ ~Writable(id) => port_w_stb(id) = 0

\* C13: in every cycle the strobe port.r_stb of each readable field equals
\* the register's bus read strobe of that same cycle, for all the readable
\* fields together.
C13_ReadStrobeComb ==
    /\ port_r_stb("a") = el_r_stb
    /\ port_r_stb("b") = el_r_stb
    /\ port_r_stb("f") = el_r_stb
    /\ \A id \in FieldIds : Readable(id) => port_r_stb(id) = el_r_stb

\* C13 witness: the bus has just raised r_stb, one cycle after a cycle
\* whose write strobe was 1, and every readable field sees it at once.
C13_Witness ==
    /\ reg_pc = "drive" /\ el_r_stb = 1 /\ el_w_stb = 0 /\ w_stb_old = 1
    /\ port_r_stb("a") = 1 /\ port_r_stb("b") = 1 /\ port_r_stb("f") = 1

\* C14: the register's bus read data is, in layout order, a at bit 0, b at
\* bits 1..2, the W elements e[0], e[1] at bits 3 and 4 reading 0, f at
\* bit 5, each readable field contributing its initiator-read value.
C14_ReadDataLayout ==
    /\ DOMAIN el_r_data = 0 .. 5
    /\ el_r_data[0] = f_data_in["a"][0]
    /\ el_r_data[1] = f_storage["b"][0]
    /\ el_r_data[2] = f_storage["b"][1]
    /\ el_r_data[3] = 0
    /\ el_r_data[4] = 0
    /\ el_r_data[5] = f_storage["f"][0]

\* C14 witness: a = 1, b = 0b01, f = 1 and the W field holding 1 read as
\* 0b100011 on the bus.
C14_Witness ==
    /\ f_data_in["a"] = BinW(1, 1) /\ f_storage["b"] = BinW(1, 2)
    /\ f_storage["f"] = BinW(1, 1) /\ field_data("e") = BinW(1, 1)
    /\ el_r_data = BinW(35, 6)

\* C15: whatever the read and write strobes, the logic-facing data of a
\* stored field equals its current storage.
C15_LogicReadIsStorage ==
    \A id \in StoredIds : field_data(id) = f_storage[id]

\* C15 witness: both strobes asserted and the bus presenting to b write
\* data that differs from its storage, before the edge.
C15_Witness ==
    /\ reg_pc = "drive" /\ el_w_stb = 1 /\ el_r_stb = 1
    /\ port_w_data("b") # f_storage["b"]
    /\ field_data("b") = f_storage["b"]
    /\ field_data("f") = f_storage["f"]

\* C16: a bus write never changes what the bus reads from an R field: its
\* slice of the read data is the value the logic drives, before and after
\* the edge of any write, and the field never receives a write strobe.
C16_ReadOnlyUntouched ==
    \A id \in InputIds :
        /\ port_w_stb(id) = 0
        /\ port_r_data(id) = f_data_in[id]
        /\ Slice(el_r_data, LastLeaf(id)) = f_data_in[id]

\* C16 witness: the edge of a strobed bus write of 1 to the bit of a has
\* been taken and a still reads 0.
C16_Witness ==
    /\ reg_pc = "tick" /\ el_w_stb = 1 /\ el_w_data[0] = 1
    /\ f_data_in["a"] = BinW(0, 1) /\ el_r_data[0] = 0

\* C17: at a clock edge each stored field changes as a function of its own
\* storage, its own slice of the bus write data and its own set / clear
\* only: b (bits 1..2, set) and f (bit 5, clear) do not affect each other.
C17_FieldIndependence ==
    reg_pc = "tick" =>
        /\ \A i \in 0 .. 1 :
             f_storage["b"][i] =
               (IF f_logic["b"][i] = 1 THEN 1
                ELSE IF el_w_stb = 1 /\ el_w_data[1 + i] = 1 THEN 0
                ELSE f_old["b"][i])
        /\ f_storage["f"][0] =
               (IF el_w_stb = 1 /\ el_w_data[5] = 1 THEN 1
                ELSE IF f_logic["f"][0] = 1 THEN 0
                ELSE f_old["f"][0])

\* C17 witness: the logic set a bit of b and the bus cleared the other,
\* while f, with its own slice written 0 and no clear, kept its 1.
C17_Witness ==
    /\ reg_pc = "tick" /\ el_w_stb = 1
    /\ f_old["b"] = BinW(2, 2) /\ f_logic["b"] = BinW(1, 2)
    /\ el_w_data[1] = 0 /\ el_w_data[2] = 1 /\ f_storage["b"] = BinW(1, 2)
    /\ f_old["f"] = BinW(1, 1) /\ f_logic["f"] = BinW(0, 1)
    /\ el_w_data[5] = 0 /\ f_storage["f"] = BinW(1, 1)

\* C18 (as claimed): the elements of the FieldArray e are backed by
\* separate slices: after a strobed bus write every element holds its own
\* slice of the write data.
C18_ArrayElementsSeparate ==
    reg_pc = "tick" /\ el_w_stb = 1 =>
        \A k \in LeafIx :
            FieldDef[LeafField(k)].type = "W" =>
                field_data(LeafField(k)) = Slice(el_w_data, k)

\* C19: in the initial state the bus read slice and the logic-facing value
\* of every stored field are the field's declared reset value: 0b11 for b,
\* 0 for f, which declares none.
C19_ResetState ==
    reg_pc = "reset" =>
        /\ field_data("b") = BinW(3, 2)
        /\ Slice(el_r_data, LastLeaf("b")) = BinW(3, 2)
        /\ field_data("f") = BinW(0, 1)
        /\ Slice(el_r_data, LastLeaf("f")) = BinW(0, 1)

\* C19 witness: the register right after construction, reading 0b000110.
C19_Witness ==
    /\ reg_pc = "reset" /\ el_w_stb = 0 /\ f_logic["b"] = BinW(0, 2)
    /\ el_r_data = BinW(6, 6)

\* C20: with no logic-side write, the edge that applies a strobed bus write
\* a second time, the inputs held since the previous edge, leaves the
\* storage as the first application left it.
C20_BusWriteIdempotent ==
    [][(pc = "tick" /\ pc' = "tick" /\ w_stb = 1 /\ set = Zero /\ clear = Zero)
         => storage' = storage]_vars

\* C20 witness: a first application of a strobed RW1C write that changed
\* the storage, with no logic-side set, from which the write is repeated.
C20_Witness ==
    /\ Ticked /\ kind = "RW1C" /\ w_stb = 1 /\ set = Zero
    /\ storage # old /\ w_data # Zero

----------------------------------------------------------------------------
(* Structural measures of a field tree, used to state the properties.      *)

RECURSIVE TreeWidth(_)
RECURSIVE TreeWidthFrom(_, _)
RECURSIVE LeafCount(_)
RECURSIVE LeafCountFrom(_, _)
RECURSIVE Resolve(_, _)
RECURSIVE Rank(_, _)
RECURSIVE LexLess(_, _)
RECURSIVE SumWidths(_, _)

TreeWidthFrom(entries, n) ==
    IF n > Len(entries) THEN 0
    ELSE TreeWidth(entries[n][2]) + TreeWidthFrom(entries, n + 1)

\* Bits of a tree: the width of a field, length times the bits of the
\* element of an array, the sum over the children of a map.
TreeWidth(v) ==
    IF v.t = "Field" THEN shape_width(v.id)
    ELSE IF v.t = "FieldArray" THEN v.length * TreeWidth(v.field)
    ELSE TreeWidthFrom(v.fields, 1)

LeafCountFrom(entries, n) ==
    IF n > Len(entries) THEN 0
    ELSE LeafCount(entries[n][2]) + LeafCountFrom(entries, n + 1)

\* Leaf positions of a tree.
LeafCount(v) ==
    IF v.t = "Field" THEN 1
    ELSE IF v.t = "FieldArray" THEN v.length * LeafCount(v.field)
    ELSE LeafCountFrom(v.fields, 1)

\* The object reached from v by the keys and indices of path.
Resolve(v, path) ==
    IF Len(path) = 0 THEN v
    ELSE IF v.t = "FieldMap"
    THEN Resolve(FieldMap_getitem(v, path[1]), Tail(path))
    ELSE IF v.t = "FieldArray"
    THEN Resolve(FieldArray_getitem(v, PyInt(path[1])), Tail(path))
    ELSE Raise("TypeError", "not a collection")

\* The positions path runs through: the place of each key in its map's
\* declaration order, each array index as it is.
Rank(v, path) ==
    IF Len(path) = 0 THEN << >>
    ELSE IF v.t = "FieldMap"
    THEN << CHOOSE n \in 1 .. Len(v.fields) : v.fields[n][1] = path[1] >>
         \o Rank(FieldMap_getitem(v, path[1]), Tail(path))
    ELSE << path[1] >> \o Rank(v.field, Tail(path))

\* Strict lexicographic order on sequences of numbers.
LexLess(a, b) ==
    IF Len(b) = 0 THEN FALSE
    ELSE IF Len(a) = 0 THEN TRUE
    ELSE IF a[1] # b[1] THEN a[1] < b[1]
    ELSE LexLess(Tail(a), Tail(b))

\* Sum of the widths of the leaves n .. of a flattened tree.
SumWidths(leaves, n) ==
    IF n > Len(leaves) THEN 0
    ELSE shape_width(leaves[n][2]) + SumWidths(leaves, n + 1)

----------------------------------------------------------------------------
\* C21: the slices Register.elaborate assigns to the leaves, in flatten()
\* order, start at bit 0, each start where the previous one stops, each
\* have the width of their leaf, are pairwise disjoint and cover exactly
\* bits 0 .. width-1 of the register's element.
C21_BitLayout ==
    (res # None /\ res.op = "elaborate") =>
        LET sl     == res.slices
            leaves == Flatten(res.reg.fields)
            K      == 1 .. Len(sl)
        IN  /\ Len(sl) = Len(leaves)
            /\ sl[1].start = 0
            /\ \A k \in K : k > 1 => sl[k].start = sl[k - 1].stop
            /\ \A k \in K : sl[k].stop - sl[k].start = shape_width(leaves[k][2])
            /\ \A j, k \in K :
                 j < k => (sl[j].stop <= sl[k].start \/ sl[k].stop <= sl[j].start)
            /\ \A n \in 0 .. (res.reg.width - 1) :
                 \E k \in K : sl[k].start <= n /\ n < sl[k].stop
            /\ \A k \in K : 0 <= sl[k].start /\ sl[k].stop <= res.reg.width

\* C21 witness: Register("rw", FieldMap({"a": W(1), "b": FieldArray(RW(2),
\* 2)})) elaborated: slices 0..1, 1..3 and 3..5 of a 5-bit element.
C21_Witness ==
    /\ res # None /\ res.op = "elaborate"
    /\ res.reg.fields =
         FieldMapNode(<< <<"a", FieldNode("w")>>,
                         <<"b", FieldArrayNode(FieldNode("s"), 2)>> >>)
    /\ res.reg.width = 5
    /\ res.slices = << [start |-> 0, stop |-> 1], [start |-> 1, stop |-> 3],
                       [start |-> 3, stop |-> 5] >>

\* C22: the width of a constructed register's element is the sum of the
\* widths of the leaves flatten() enumerates, a FieldArray of length L
\* counting L times its element and a FieldMap the sum of its children.
C22_Width ==
    (res # None /\ res.op = "Register" /\ res.out.t = "Register") =>
        /\ res.out.width = SumWidths(Flatten(obj), 1)
        /\ res.out.width = TreeWidth(obj)

\* C22 witness: Register("rw", FieldArray(FieldMap({"a": R(1), "b": RW(2)}),
\* 2)): two elements of 3 bits, 6 bits.
C22_Witness ==
    /\ res # None /\ res.op = "Register" /\ res.out.t = "Register"
    /\ obj = FieldArrayNode(
                    FieldMapNode(<< <<"a", FieldNode("p")>>,
                                    <<"b", FieldNode("s")>> >>), 2)
    /\ res.out.width = 6

\* C23: flatten() yields one (path, Field) pair per leaf position; every
\* path leads, by its map keys and array indices from the root, to the
\* Field yielded with it; the pairs come depth-first, map children in
\* declaration order and array elements in increasing index; no two paths
\* are equal.
C23_FlattenEnumeration ==
    (res # None /\ res.op = "flatten") =>
        LET out == res.out
            K   == 1 .. Len(out)
        IN  /\ Len(out) = LeafCount(obj)
            /\ \A k \in K : Resolve(obj, out[k][1]) = FieldNode(out[k][2])
            /\ \A j, k \in K :
                 j < k => /\ LexLess(Rank(obj, out[j][1]),
                                     Rank(obj, out[k][1]))
                          /\ out[j][1] # out[k][1]
            /\ \A k \in K : k > 1 /\ obj.t = "FieldArray" =>
                 out[k][1][1] >= out[k - 1][1][1]

\* C23 witness: FieldMap({"b": FieldArray(R(1), 2), "a": W(1)}) flattened to
\* ("b", 0), ("b", 1), ("a",).
C23_Witness ==
    /\ res # None /\ res.op = "flatten"
    /\ obj = FieldMapNode(<< <<"b", FieldArrayNode(FieldNode("p"), 2)>>,
                                <<"a", FieldNode("w")>> >>)
    /\ Len(res.out) = 3
    /\ res.out[1] = << <<"b", 0>>, "p" >>
    /\ res.out[2] = << <<"b", 1>>, "p" >>
    /\ res.out[3] = << <<"a">>, "w" >>

\* Some leaf of the tree v is readable / writable by the bus.
SomeLeafReadable(v) ==
    \E k \in 1 .. Len(Flatten(v)) : readable(Field_access(Flatten(v)[k][2]))
SomeLeafWritable(v) ==
    \E k \in 1 .. Len(Flatten(v)) : writable(Field_access(Flatten(v)[k][2]))

\* C24: Register(access, fields) fails with an error naming the field if
\* and only if some leaf is readable while access is not, or some leaf is
\* writable while access is not; a failed construction yields no Register.
C24_AccessValidation ==
    (res # None /\ res.op = "Register") =>
        LET bad == \/ SomeLeafReadable(obj) /\ ~readable(res.access)
                   \/ SomeLeafWritable(obj) /\ ~writable(res.access)
        IN  /\ bad <=> (Raised(res.out) /\ res.out.name # "")
            /\ ~bad <=> res.out.t = "Register"

\* C25: a register's bus-readable flag is true if and only if at least one
\* of its leaf fields is readable by the bus, and its bus-writable flag if
\* and only if at least one leaf field is writable by the bus.
C25_AccessAggregation ==
    (res # None /\ res.op = "Register" /\ res.out.t = "Register") =>
        /\ readable(res.out.access) <=> SomeLeafReadable(obj)
        /\ writable(res.out.access) <=> SomeLeafWritable(obj)

\* C26: FieldMap(arg) fails with a TypeError when arg is not a mapping or is
\* empty, when a key is not a non-empty string, or when a value is not a
\* Field, FieldMap or FieldArray, and succeeds otherwise; a constructed
\* FieldMap is non-empty, has pairwise different non-empty string names and
\* holds the entries of arg in their order.
C26_FieldMapConstruction ==
    (res # None /\ res.op = "FieldMap") =>
        LET arg == res.arg
            out == res.out
            bad ==
                \/ arg.t # "dict"
                \/ Len(arg.items) = 0
                \/ \E n \in 1 .. Len(arg.items) :
                     \/ arg.items[n][1].t # "str"
                     \/ arg.items[n][1].v = ""
                     \/ arg.items[n][2].t \notin {"Field", "FieldMap", "FieldArray"}
        IN  /\ bad => (Raised(out) /\ out.exc = "TypeError")
            /\ ~bad => out.t = "FieldMap"
            /\ out.t = "FieldMap" =>
                 /\ Len(out.fields) >= 1
                 /\ Len(out.fields) = Len(arg.items)
                 /\ \A n \in 1 .. Len(out.fields) :
                      /\ out.fields[n][1] # ""
                      /\ out.fields[n][1] = arg.items[n][1].v
                      /\ out.fields[n][2] = arg.items[n][2]
                 /\ \A i, j \in 1 .. Len(out.fields) :
                      i # j => out.fields[i][1] # out.fields[j][1]

\* C26 witness: FieldMap({"a": R(1), "": W(1)}) raised TypeError at its
\* second entry.
C26_Witness ==
    /\ res # None /\ res.op = "FieldMap"
    /\ res.arg = Dict(<< <<PyStr("a"), FieldNode("p")>>,
                         <<PyStr(""), FieldNode("w")>> >>)
    /\ Raised(res.out) /\ res.out.exc = "TypeError"
    /\ res.out.msg = "Field name must be a non-empty string"

\* C27: FieldArray(field, length) fails with a TypeError when field is not
\* a Field, FieldMap or FieldArray, or when length is not an integer or is
\* at most 0, and succeeds otherwise; a constructed FieldArray has a length
\* of at least 1 and reports the length it was given.
C27_FieldArrayConstruction ==
    (res # None /\ res.op = "FieldArray") =>
        LET out == res.out
            bad ==
                \/ res.field.t \notin {"Field", "FieldMap", "FieldArray"}
                \/ res.length.t # "int"
                \/ res.length.n <= 0
        IN  /\ bad => (Raised(out) /\ out.exc = "TypeError")
            /\ ~bad => out.t = "FieldArray"
            /\ out.t = "FieldArray" =>
                 /\ FieldArray_len(out) >= 1
                 /\ FieldArray_len(out) = res.length.n
                 /\ out.field = res.field

\* C27 witness: FieldArray(W(1), 0) raised TypeError.
C27_Witness ==
    /\ res # None /\ res.op = "FieldArray"
    /\ res.field = FieldNode("w") /\ res.length = PyInt(0)
    /\ Raised(res.out) /\ res.out.exc = "TypeError"
    /\ res.out.msg = "Field array length must be a positive integer"

\* Two Field values declared alike: the same field type and shape (the
\* fields of this section take no reset), constructed together or apart.
SameDeclaration(a, b) ==
    a.t = "Field" /\ b.t = "Field" /\ ObjDef[a.id] = ObjDef[b.id]

\* C28: two FieldMaps are equal if and only if they have the same number of
\* entries and the same (name, field) pairs in the same order, fields
\* declared alike counting as the same even when constructed separately.
C28_FieldMapEquality ==
    (res # None /\ res.op = "eq" /\ obj.t = "FieldMap"
       /\ other.t = "FieldMap") =>
        (res.out <=>
            /\ Len(obj.fields) = Len(other.fields)
            /\ \A n \in 1 .. Len(obj.fields) :
                 /\ obj.fields[n][1] = other.fields[n][1]
                 /\ SameDeclaration(obj.fields[n][2], other.fields[n][2]))

\* C29: two FieldArrays are equal if and only if they have the same length
\* and elements declared alike, even when constructed separately; a
\* FieldArray is never equal to a value that is not a FieldArray.
C29_FieldArrayEquality ==
    (res # None /\ res.op = "eq" /\ obj.t = "FieldArray") =>
        (res.out <=>
            /\ other.t = "FieldArray"
            /\ FieldArray_len(obj) = FieldArray_len(other)
            /\ SameDeclaration(obj.field, other.field))

\* C30: indexing a FieldArray of length L with an integer in 0 .. L-1
\* returns the element definition, with an integer outside the bounds of
\* the array raises KeyError, with a key that is no integer raises
\* TypeError.
C30_FieldArrayIndexing ==
    (res # None /\ res.op = "getitem") =>
        LET L == FieldArray_len(obj)
        IN  IF res.key.t = "int"
            THEN /\ (0 <= res.key.n /\ res.key.n < L) => res.out = obj.field
                 /\ (res.key.n < 0 - L \/ res.key.n >= L) =>
                      (Raised(res.out) /\ res.out.exc = "KeyError")
            ELSE Raised(res.out) /\ res.out.exc = "TypeError"

----------------------------------------------------------------------------
(* Clusters, field reset values and the interrupt logic.                   *)

\* The register of an add() call is more permissive than the cluster.
ExceedsCluster(reg, self) ==
    \/ readable(reg.access) /\ ~readable(self.access)
    \/ writable(reg.access) /\ ~writable(self.access)

\* C31: add() rejects with a TypeError an argument that is not a Register,
\* and with a ValueError a register that is readable when the cluster is not
\* readable or writable when the cluster is not writable; after a rejected
\* call the address map of the cluster is as it was before the call, and a
\* call that succeeds returns the register it was given.
C31_ClusterAddAccessCheck ==
    (res # None /\ res.op = "add") =>
        /\ res.reg.t # "Register" =>
             (Raised(res.out) /\ res.out.exc = "TypeError")
        /\ (res.reg.t = "Register" /\ ExceedsCluster(res.reg, res.before)) =>
             (Raised(res.out) /\ res.out.exc = "ValueError")
        /\ Raised(res.out) => cluster.map = res.before.map
        /\ ~Raised(res.out) => res.out = res.reg

\* A writable register was refused by a read-only cluster that already
\* holds a register.
C31_Witness ==
    /\ res # None /\ res.op = "add"
    /\ res.reg.t = "Register" /\ writable(res.reg.access)
    /\ res.before.access = "r"
    /\ Raised(res.out) /\ res.out.exc = "ValueError"
    /\ Len(cluster.map.resources) > 0

\* C32: a call of freeze() and a read of memory_map both leave the cluster
\* frozen; from a frozen cluster every add() fails and no call changes the
\* registers placed or anything else of the cluster, so that freezing a
\* frozen cluster changes nothing.
C32_ClusterFreezing ==
    [][/\ (res' # None /\ res'.op \in {"freeze", "memory_map"}) =>
            cluster'.map.frozen
       /\ cluster.map.frozen =>
            /\ cluster' = cluster
            /\ (res' # None /\ res'.op = "add") => Raised(res'.out)
      ]_<<cluster, res>>

\* A register the cluster would otherwise accept was refused because the
\* cluster, which holds a register already, had been frozen.
C32_Witness ==
    /\ res # None /\ res.op = "add"
    /\ res.before.map.frozen
    /\ res.reg.t = "Register" /\ ~ExceedsCluster(res.reg, res.before)
    /\ res.addr = None
    /\ Raised(res.out)
    /\ Len(cluster.map.resources) > 0

\* C33: the reset property of an RW, RW1C or RW1S field returns the reset
\* value passed to the constructor, 0 if none was passed, and reading it
\* never fails.
C33_ResetProperty ==
    (res # None /\ res.op = "reset") =>
        /\ ~Raised(res.out)
        /\ res.out = (IF other.reset = Omitted THEN PyInt(0)
                      ELSE other.reset)

TriggerBefore(k) == IF k = 1 THEN 0 ELSE cycles[k - 1].trigger

\* C36: EventSource accepts the modes level, rise and fall and raises
\* ValueError for any other; in every cycle, a level source has en equal to
\* trigger, a rise source has en = 1 exactly when trigger is 1 and was 0 the
\* cycle before (0 before the first cycle), a fall source has en = 1 exactly
\* when trigger is 0 and was 1 the cycle before; over cycles in which the
\* trigger keeps one value, an edge source asserts en at most once.
C36_EventSourceModes ==
    /\ (res # None /\ res.op = "EventSource") =>
         /\ Raised(res.out) <=> res.mode \notin {"level", "rise", "fall"}
         /\ Raised(res.out) => res.out.exc = "ValueError"
    /\ event # None =>
         /\ \A k \in 1 .. Len(cycles) :
              /\ event.mode = "level" => cycles[k].en = cycles[k].trigger
              /\ event.mode = "rise" =>
                   (cycles[k].en = 1 <=>
                      (cycles[k].trigger = 1 /\ TriggerBefore(k) = 0))
              /\ event.mode = "fall" =>
                   (cycles[k].en = 1 <=>
                      (cycles[k].trigger = 0 /\ TriggerBefore(k) = 1))
         /\ event.mode \in {"rise", "fall"} =>
              \A j \in 1 .. Len(cycles) :
                \A k \in (j + 1) .. Len(cycles) :
                  (\A m \in j .. k : cycles[m].trigger = cycles[j].trigger)
                    => ~(cycles[j].en = 1 /\ cycles[k].en = 1)

\* A rise source saw its trigger go from 0 to 1 and stay 1: en was 1 in the
\* cycle of the edge and 0 in the next.
C36_Witness ==
    /\ event # None /\ event.mode = "rise"
    /\ \E k \in 2 .. Len(cycles) - 1 :
         /\ cycles[k - 1].trigger = 0
         /\ cycles[k].trigger = 1 /\ cycles[k].en = 1
         /\ cycles[k + 1].trigger = 1 /\ cycles[k + 1].en = 0

====
